---- MODULE Spec2Model ----
(***************************************************************************)
(* got-ur-logs-uwu: the logger dispatch engine (logger.rs), the severity   *)
(* ordering (severity.rs), the message type (message.rs) and the global    *)
(* logger slot, as a state machine.                                        *)
(*                                                                         *)
(* A thread is at pc "idle" between calls.  pc = "f" means the thread is   *)
(* about to execute the body of function f.  Calls on a Mutex and the      *)
(* accesses to the `static mut LOGGER` are single steps, so that every     *)
(* interleaving of threads between them is explored.                       *)
(***************************************************************************)
EXTENDS Integers, Sequences, FiniteSets, TLC

\* ---------------------------------------------------------------- bounds
NumThreads == 2
MaxLoggers == 2
MaxWriters == 2
MaxLen == 2
MaxCalls == 2
SeqLoggers == 1
SeqCalls == 1

Threads == 1..NumThreads

\* The thread that runs main().
MainThread == CHOOSE t \in Threads : \A u \in Threads : t <= u

\* ----------------------------------------------------------- severity.rs
Trace == 0
Debug == 1
DeveloperWarning == 2
Info == 3
Warning == 4
Error == 5
Fatal == 6

Levels == {Trace, Debug, DeveloperWarning, Info, Warning, Error, Fatal}

\* #[derive(PartialOrd)] on the enum: variants compare by declaration order.
SeverityGe(a, b) == a >= b

SeverityLt(a, b) == a < b

\* The (Severity, Message) type pairs a Logger is instantiated with.
\* DefaultPair is (Severity, Message<Severity>).  CustomPair(k) stands for a
\* caller-supplied severity type over the same seven levels whose
\* IsSeverity::min() returns level k (the trait leaves min() to the
\* implementor).
DefaultPair == [custom |-> FALSE, min |-> Trace]

CustomPair(k) == [custom |-> TRUE, min |-> k]

TypePairs == {DefaultPair} \cup {CustomPair(k) : k \in Levels}

NoPair == [custom |-> FALSE, min |-> -1]

Texts == {"a", "b"}

NamedCalls == {"log_trace", "log_debug", "log_developer_warning", "log_info",
               "log_warning", "log_error", "log_fatal"}

VARIABLES
    LOGGER,       \* static mut LOGGER: 0 is None, else the boxed instance
    loggers,      \* every Logger constructed so far, by instance id
    mutexes,      \* per writer: the Mutex around it
    out,          \* per writer: what its write calls emitted, in order
    owner,        \* per writer: the thread holding its Arc outside a logger
    pc,           \* per thread: position
    frame,        \* per thread: arguments and locals of the current call
    handles,      \* per thread: the loggers it has a reference to
    guards,       \* per thread: MutexGuards taken directly by the caller
    ncalls,       \* log calls started
    constructed,  \* Loggers constructed by global()
    returned,     \* the instances completed global() calls returned
    invocation,   \* a call of a function on values, with its arguments
    result        \* what that call produced

vars == <<LOGGER, loggers, mutexes, out, owner, pc, frame,
          handles, guards, ncalls, constructed, returned, invocation, result>>

\* ------------------------------------------------------------ severity.rs
\* Mutant: min() returns Severity::default().
IsSeverity_min_Default(ty) == IF ty.custom THEN ty.min ELSE Info

IsSeverity_min(ty) == IF ty.custom THEN ty.min ELSE Trace

\* Mutant: max() returns the level before the last.
IsSeverity_max_Error(ty) == Error

IsSeverity_max(ty) == Fatal

\* Mutant: log_warning passes the error level.
NamedSeverity_Swapped(name) ==
    CASE name = "log_trace" -> Trace
      [] name = "log_debug" -> Debug
      [] name = "log_developer_warning" -> DeveloperWarning
      [] name = "log_info" -> Info
      [] name = "log_warning" -> Error
      [] name = "log_error" -> Error
      [] name = "log_fatal" -> Fatal

\* logger.rs, log_trace .. log_fatal: the level each named call passes on,
\* Severity::trace_severity() .. Severity::fatal_severity().
NamedSeverity(name) ==
    CASE name = "log_trace" -> Trace
      [] name = "log_debug" -> Debug
      [] name = "log_developer_warning" -> DeveloperWarning
      [] name = "log_info" -> Info
      [] name = "log_warning" -> Warning
      [] name = "log_error" -> Error
      [] name = "log_fatal" -> Fatal

\* ------------------------------------------------------------- message.rs
from_core_fields(severity, text) == [_severity |-> severity, _text |-> text]

severity(message) == message._severity

text(message) == message._text

NoMessage == [_severity |-> -1, _text |-> ""]

\* Option<T>
None == [some |-> FALSE]

Some(x) == [some |-> TRUE, val |-> x]

\* -------------------------------------------------------------- logger.rs
\* Mutant: the threshold starts at the most severe level.
LoggerDefault_MaxThreshold(ty) ==
    [ty |-> ty, min_severity |-> IsSeverity_max(ty), writers |-> <<>>,
     dropped |-> FALSE]

\* Logger::default()
LoggerDefault(ty) ==
    [ty |-> ty, min_severity |-> IsSeverity_min(ty), writers |-> <<>>,
     dropped |-> FALSE]

NewMutex == [holder |-> 0, poisoned |-> FALSE]

NoFrame ==
    [entry |-> "none", id |-> 0, logger |-> 0, ty |-> NoPair, severity |-> -1,
     text |-> "", msg |-> NoMessage, i |-> 0, did |-> <<>>,
     outcome |-> "none"]

\* No call on values is made: the program only uses its loggers.
NoInvocation ==
    [fn |-> "none", severity |-> None, text |-> None, operands |-> <<>>,
     template |-> <<>>, message |-> NoMessage]

NoResult ==
    [status |-> "none", message |-> NoMessage, ordering |-> <<>>, buffer |-> <<>>,
     error |-> ""]

InitLoggers ==
    /\ LOGGER = 0
    /\ loggers = <<>>
    /\ mutexes = <<>>
    /\ out = <<>>
    /\ owner = <<>>
    /\ pc = [t \in Threads |-> "idle"]
    /\ frame = [t \in Threads |-> NoFrame]
    /\ handles = [t \in Threads |-> {}]
    /\ guards = [t \in Threads |-> {}]
    /\ ncalls = 0
    /\ constructed = 0
    /\ returned = {}

Init ==
    /\ InitLoggers
    /\ invocation = NoInvocation
    /\ result = NoResult

InGlobal(t) == pc[t] \in {"global_init", "global_downcast"}

Dispatching(t) == pc[t] \notin {"idle", "panicked", "undefined", "global_init", "global_downcast"}

\* Instances still to be constructed by threads that saw LOGGER.is_none().
PendingInits == Cardinality({t \in Threads : pc[t] = "global_init"})

\* Mutant: a guard dropped by a panic leaves no mark on its mutex.
Unwind_NoPoison(held) ==
    [w \in DOMAIN mutexes |->
        IF w \in held THEN [mutexes[w] EXCEPT !.holder = 0] ELSE mutexes[w]]

\* A panic unwinds the thread: every MutexGuard it holds is dropped while
\* panicking, which poisons the mutex and releases it.
Unwind(held) ==
    [w \in DOMAIN mutexes |->
        IF w \in held THEN [holder |-> 0, poisoned |-> TRUE] ELSE mutexes[w]]

\* The frame of a thread shows its last call until its next one begins.
Forget(t) == [frame EXCEPT ![t] = NoFrame]

\* Logger::default() for a locally owned logger.
NewLocal(t, ty) ==
    /\ pc[t] = "idle"
    /\ loggers' = Append(loggers, LoggerDefault(ty))
    /\ handles' = [handles EXCEPT ![t] = @ \cup {Len(loggers) + 1}]
    /\ frame' = Forget(t)
    /\ UNCHANGED <<LOGGER, mutexes, out, owner, pc, guards, ncalls,
                   constructed, returned>>

\* Mutant: the slot is assigned without the is_none() check.
GlobalCheck_AlwaysInit(t, ty, serial) ==
    /\ pc[t] = "idle"
    /\ serial => (\A u \in Threads : ~InGlobal(u))
    /\ frame' = [frame EXCEPT ![t] =
                    [NoFrame EXCEPT !.entry = "global", !.ty = ty, !.outcome = "running"]]
    /\ pc' = [pc EXCEPT ![t] = "global_init"]
    /\ UNCHANGED <<LOGGER, loggers, mutexes, out, owner, handles, guards,
                   ncalls, constructed, returned>>

\* global(): `if LOGGER.is_none()`.  With serial set, the caller keeps the
\* calls of global() from overlapping.
GlobalCheck(t, ty, serial) ==
    /\ pc[t] = "idle"
    /\ serial => (\A u \in Threads : ~InGlobal(u))
    /\ frame' = [frame EXCEPT ![t] =
                    [NoFrame EXCEPT !.entry = "global", !.ty = ty, !.outcome = "running"]]
    /\ pc' = [pc EXCEPT ![t] = IF LOGGER = 0 THEN "global_init" ELSE "global_downcast"]
    /\ UNCHANGED <<LOGGER, loggers, mutexes, out, owner, handles, guards,
                   ncalls, constructed, returned>>

\* global(): `LOGGER = Some(Box::<Self>::default())`.  The assignment drops
\* the Box the slot held before, if any.
GlobalInit(t) ==
    /\ pc[t] = "global_init"
    /\ loggers' = Append([l \in DOMAIN loggers |->
                            IF l = LOGGER THEN [loggers[l] EXCEPT !.dropped = TRUE]
                            ELSE loggers[l]],
                         LoggerDefault(frame[t].ty))
    /\ LOGGER' = Len(loggers) + 1
    /\ constructed' = constructed + 1
    /\ pc' = [pc EXCEPT ![t] = "global_downcast"]
    /\ UNCHANGED <<mutexes, out, owner, frame, handles, guards, ncalls, returned>>

\* Mutant: the cast is not checked.
Downcasts_Unchecked(l, ty) == TRUE

\* `downcast_mut::<Self>()` is Some exactly when the boxed value is a Self.
Downcasts(l, ty) == loggers[l].ty = ty

\* global(): `.downcast_mut::<Self>().expect(..)`
GlobalDowncast(t) ==
    /\ pc[t] = "global_downcast"
    /\ IF Downcasts(LOGGER, frame[t].ty)
       THEN /\ pc' = [pc EXCEPT ![t] = "idle"]
            /\ frame' = [frame EXCEPT ![t].logger = LOGGER, ![t].outcome = "returned"]
            /\ handles' = [handles EXCEPT ![t] = @ \cup {LOGGER}]
            /\ returned' = returned \cup {LOGGER}
            /\ UNCHANGED <<mutexes, guards>>
       ELSE /\ pc' = [pc EXCEPT ![t] = "panicked"]
            /\ frame' = [frame EXCEPT ![t].outcome = "panicked"]
            /\ mutexes' = Unwind(guards[t])
            /\ guards' = [guards EXCEPT ![t] = {}]
            /\ UNCHANGED <<handles, returned>>
    /\ UNCHANGED <<LOGGER, loggers, out, owner, ncalls, constructed>>

\* Registration needs `&mut self`; on the global logger a registration that
\* overlaps a dispatch is a data race the design leaves undefined, and it is
\* kept out of the runs.
Quiescent(l) == \A u \in Threads : ~(Dispatching(u) /\ frame[u].logger = l)

Usable(t, l) == l \in handles[t] /\ ~loggers[l].dropped

add_writer(t, l) ==
    /\ pc[t] = "idle"
    /\ Usable(t, l)
    /\ Quiescent(l)
    /\ mutexes' = Append(mutexes, NewMutex)
    /\ out' = Append(out, <<>>)
    /\ owner' = Append(owner, 0)
    /\ loggers' = [loggers EXCEPT ![l].writers = Append(@, Len(mutexes) + 1)]
    /\ frame' = Forget(t)
    /\ UNCHANGED <<LOGGER, pc, handles, guards, ncalls, constructed,
                   returned>>

\* The caller's `Arc::new(Mutex::new(writer))`.
NewSharedWriter(t) ==
    /\ pc[t] = "idle"
    /\ mutexes' = Append(mutexes, NewMutex)
    /\ out' = Append(out, <<>>)
    /\ owner' = Append(owner, t)
    /\ frame' = Forget(t)
    /\ UNCHANGED <<LOGGER, loggers, pc, handles, guards, ncalls,
                   constructed, returned>>

\* Mutant: a writer already in the list is not registered again.
add_writer_shared_Dedup(t, l, w) ==
    /\ pc[t] = "idle"
    /\ Usable(t, l)
    /\ Quiescent(l)
    /\ owner[w] = t
    /\ loggers' = [loggers EXCEPT ![l].writers =
                      IF \E k \in DOMAIN @ : @[k] = w THEN @ ELSE Append(@, w)]
    /\ frame' = Forget(t)
    /\ UNCHANGED <<LOGGER, mutexes, out, owner, pc, handles, guards, ncalls, constructed, returned>>

add_writer_shared(t, l, w) ==
    /\ pc[t] = "idle"
    /\ Usable(t, l)
    /\ Quiescent(l)
    /\ owner[w] = t
    /\ loggers' = [loggers EXCEPT ![l].writers = Append(@, w)]
    /\ frame' = Forget(t)
    /\ UNCHANGED <<LOGGER, mutexes, out, owner, pc, handles, guards, ncalls, constructed, returned>>

EntryPoints == {"log_message", "log_with_severity"} \cup NamedCalls

\* The caller calls an entry point of logger l.  log_message gets the
\* message the caller built from sev and txt, log_with_severity gets sev and
\* txt, a named call gets txt.
Call(t, l, entry, sev, txt) ==
    /\ pc[t] = "idle"
    /\ Usable(t, l)
    /\ ncalls' = ncalls + 1
    /\ frame' = [frame EXCEPT ![t] =
          [entry |-> entry, id |-> ncalls + 1, logger |-> l, ty |-> loggers[l].ty,
           severity |-> IF entry = "log_with_severity" THEN sev ELSE -1,
           text |-> IF entry = "log_message" THEN "" ELSE txt,
           msg |-> IF entry = "log_message" THEN from_core_fields(sev, txt) ELSE NoMessage,
           i |-> 0, did |-> <<>>, outcome |-> "running"]]
    /\ pc' = [pc EXCEPT ![t] = entry]
    /\ UNCHANGED <<LOGGER, loggers, mutexes, out, owner, handles, guards,
                   constructed, returned>>

\* log_trace .. log_fatal: `self.log_with_severity(Severity::x_severity(), text)`
log_named(t) ==
    /\ pc[t] \in NamedCalls
    /\ frame' = [frame EXCEPT ![t].severity = NamedSeverity(pc[t])]
    /\ pc' = [pc EXCEPT ![t] = "log_with_severity"]
    /\ UNCHANGED <<LOGGER, loggers, mutexes, out, owner, handles, guards,
                   ncalls, constructed, returned>>

\* log_with_severity: `self.log_message(Message::from_core_fields(severity, text))`
log_with_severity(t) ==
    /\ pc[t] = "log_with_severity"
    /\ frame' = [frame EXCEPT ![t].msg = from_core_fields(frame[t].severity, frame[t].text)]
    /\ pc' = [pc EXCEPT ![t] = "log_message"]
    /\ UNCHANGED <<LOGGER, loggers, mutexes, out, owner, handles, guards,
                   ncalls, constructed, returned>>

\* Mutant: the threshold itself is filtered out (`>` for `>=`).
Accepted_Strict(message, l) == severity(message) > loggers[l].min_severity

\* log_message: `message.severity() >= &self.min_severity`
Accepted(message, l) == SeverityGe(severity(message), loggers[l].min_severity)

\* The position after the loop body ran for the entries before i: entry i,
\* or the end of the `for` and of log_message.
AfterEntry(t, i) == IF i > Len(loggers[frame[t].logger].writers) THEN "idle" ELSE "loop"

log_message(t) ==
    /\ pc[t] = "log_message"
    /\ IF Accepted(frame[t].msg, frame[t].logger)
       THEN /\ pc' = [pc EXCEPT ![t] = AfterEntry(t, 1)]
            /\ frame' = [frame EXCEPT ![t].i = 1,
                            ![t].outcome = IF AfterEntry(t, 1) = "idle" THEN "returned" ELSE @]
       ELSE /\ pc' = [pc EXCEPT ![t] = "idle"]
            /\ frame' = [frame EXCEPT ![t].outcome = "returned"]
    /\ UNCHANGED <<LOGGER, loggers, mutexes, out, owner, handles, guards,
                   ncalls, constructed, returned>>

\* Mutant: the list is walked from its end.
CurrentWriter_Reversed(t) ==
    loggers[frame[t].logger].writers[Len(loggers[frame[t].logger].writers) + 1 - frame[t].i]

\* The entry of `for writer in &self.writers` the loop is at.
CurrentWriter(t) == loggers[frame[t].logger].writers[frame[t].i]

\* Mutant: one lock for all the writers.
Free_AllWriters(w) == \A v \in DOMAIN mutexes : mutexes[v].holder = 0

\* Mutant: lock() never waits.
Free_Always(w) == TRUE

\* Mutex::lock blocks until no guard is out.
Free(w) == mutexes[w].holder = 0

\* Mutant: a call waits for the calls submitted before it that want the
\* same writer.
Lock_InSubmissionOrder(t) ==
    /\ pc[t] = "loop"
    /\ Free(CurrentWriter(t))
    /\ \A u \in Threads :
          (pc[u] = "loop" /\ CurrentWriter(u) = CurrentWriter(t)) => frame[t].id <= frame[u].id
    /\ IF mutexes[CurrentWriter(t)].poisoned
       THEN /\ pc' = [pc EXCEPT ![t] = "panicked"]
            /\ frame' = [frame EXCEPT ![t].outcome = "panicked"]
            /\ mutexes' = Unwind(guards[t])
            /\ guards' = [guards EXCEPT ![t] = {}]
       ELSE /\ pc' = [pc EXCEPT ![t] = "write"]
            /\ mutexes' = [mutexes EXCEPT ![CurrentWriter(t)].holder = t]
            /\ UNCHANGED <<frame, guards>>
    /\ UNCHANGED <<LOGGER, loggers, out, owner, handles, ncalls,
                   constructed, returned>>

\* `writer.lock().unwrap()`: a poisoned mutex hands out its guard inside an
\* Err; unwrap panics on it and the guard is dropped again.
Lock(t) ==
    /\ pc[t] = "loop"
    /\ Free(CurrentWriter(t))
    /\ IF mutexes[CurrentWriter(t)].poisoned
       THEN /\ pc' = [pc EXCEPT ![t] = "panicked"]
            /\ frame' = [frame EXCEPT ![t].outcome = "panicked"]
            /\ mutexes' = Unwind(guards[t])
            /\ guards' = [guards EXCEPT ![t] = {}]
       ELSE /\ pc' = [pc EXCEPT ![t] = "write"]
            /\ mutexes' = [mutexes EXCEPT ![CurrentWriter(t)].holder = t]
            /\ UNCHANGED <<frame, guards>>
    /\ UNCHANGED <<LOGGER, loggers, out, owner, handles, ncalls,
                   constructed, returned>>

\* Mutant: the writers after the first get the message without its text.
Chunk_Reformatted(t, part) ==
    [msg |-> IF frame[t].i > 1 THEN [frame[t].msg EXCEPT !._text = ""] ELSE frame[t].msg,
     part |-> part, call |-> frame[t].id]

Chunk(t, part) == [msg |-> frame[t].msg, part |-> part, call |-> frame[t].id]

\* `.write(&message)` begins: the writer starts to emit the message.
WriteBegin(t) ==
    /\ pc[t] = "write"
    /\ out' = [out EXCEPT ![CurrentWriter(t)] = Append(@, Chunk(t, "head"))]
    /\ frame' = [frame EXCEPT ![t].did = Append(@, CurrentWriter(t))]
    /\ pc' = [pc EXCEPT ![t] = "writing"]
    /\ UNCHANGED <<LOGGER, loggers, mutexes, owner, handles, guards, ncalls, constructed, returned>>

\* Mutant: the Result of write is dropped (`let _ = ..write(&message);`).
WriteEnd_IgnoreError(t, ok) ==
    /\ pc[t] = "writing"
    /\ out' = [out EXCEPT ![CurrentWriter(t)] =
                  Append(@, Chunk(t, IF ok THEN "tail" ELSE "failed"))]
    /\ mutexes' = [mutexes EXCEPT ![CurrentWriter(t)].holder = 0]
    /\ pc' = [pc EXCEPT ![t] = AfterEntry(t, frame[t].i + 1)]
    /\ frame' = [frame EXCEPT ![t].i = @ + 1,
                    ![t].outcome = IF AfterEntry(t, frame[t].i + 1) = "idle"
                                   THEN "returned" ELSE @]
    /\ UNCHANGED <<LOGGER, loggers, owner, handles, guards, ncalls,
                   constructed, returned>>

\* Mutant: the guard is kept until log_message returns.
WriteEnd_KeepLock(t, ok) ==
    /\ pc[t] = "writing"
    /\ IF ok
       THEN /\ out' = [out EXCEPT ![CurrentWriter(t)] = Append(@, Chunk(t, "tail"))]
            /\ mutexes' =
                  IF AfterEntry(t, frame[t].i + 1) = "idle"
                  THEN [w \in DOMAIN mutexes |->
                          IF mutexes[w].holder = t /\ w \notin guards[t]
                          THEN [mutexes[w] EXCEPT !.holder = 0] ELSE mutexes[w]]
                  ELSE mutexes
            /\ pc' = [pc EXCEPT ![t] = AfterEntry(t, frame[t].i + 1)]
            /\ frame' = [frame EXCEPT ![t].i = @ + 1,
                            ![t].outcome = IF AfterEntry(t, frame[t].i + 1) = "idle"
                                           THEN "returned" ELSE @]
            /\ UNCHANGED guards
       ELSE /\ out' = [out EXCEPT ![CurrentWriter(t)] = Append(@, Chunk(t, "failed"))]
            /\ mutexes' = Unwind(guards[t] \cup {CurrentWriter(t)})
            /\ pc' = [pc EXCEPT ![t] = "panicked"]
            /\ frame' = [frame EXCEPT ![t].outcome = "panicked"]
            /\ guards' = [guards EXCEPT ![t] = {}]
    /\ UNCHANGED <<LOGGER, loggers, owner, handles, ncalls,
                   constructed, returned>>

\* write returns; `.expect("Failed to write message")`; the guard temporary
\* is dropped at the end of the statement (or by the unwinding).
WriteEnd(t, ok) ==
    /\ pc[t] = "writing"
    /\ IF ok
       THEN /\ out' = [out EXCEPT ![CurrentWriter(t)] = Append(@, Chunk(t, "tail"))]
            /\ mutexes' = [mutexes EXCEPT ![CurrentWriter(t)].holder = 0]
            /\ pc' = [pc EXCEPT ![t] = AfterEntry(t, frame[t].i + 1)]
            /\ frame' = [frame EXCEPT ![t].i = @ + 1,
                            ![t].outcome = IF AfterEntry(t, frame[t].i + 1) = "idle"
                                           THEN "returned" ELSE @]
            /\ UNCHANGED guards
       ELSE /\ out' = [out EXCEPT ![CurrentWriter(t)] = Append(@, Chunk(t, "failed"))]
            /\ mutexes' = Unwind(guards[t] \cup {CurrentWriter(t)})
            /\ pc' = [pc EXCEPT ![t] = "panicked"]
            /\ frame' = [frame EXCEPT ![t].outcome = "panicked"]
            /\ guards' = [guards EXCEPT ![t] = {}]
    /\ UNCHANGED <<LOGGER, loggers, owner, handles, ncalls,
                   constructed, returned>>

\* The caller locks a writer it shares with a logger, `writer.lock().unwrap()`.
DirectLock(t, w) ==
    /\ pc[t] = "idle"
    /\ owner[w] = t
    /\ Free(w)
    /\ IF mutexes[w].poisoned
       THEN /\ pc' = [pc EXCEPT ![t] = "panicked"]
            /\ mutexes' = Unwind(guards[t])
            /\ guards' = [guards EXCEPT ![t] = {}]
       ELSE /\ mutexes' = [mutexes EXCEPT ![w].holder = t]
            /\ guards' = [guards EXCEPT ![t] = @ \cup {w}]
            /\ UNCHANGED pc
    /\ frame' = Forget(t)
    /\ UNCHANGED <<LOGGER, loggers, out, owner, handles, ncalls,
                   constructed, returned>>

\* The caller's guard goes out of scope.
DirectUnlock(t, w) ==
    /\ pc[t] = "idle"
    /\ w \in guards[t]
    /\ mutexes' = [mutexes EXCEPT ![w].holder = 0]
    /\ guards' = [guards EXCEPT ![t] = @ \ {w}]
    /\ frame' = Forget(t)
    /\ UNCHANGED <<LOGGER, loggers, out, owner, pc, handles, ncalls,
                   constructed, returned>>

\* A reference global() returned is used after the slot was overwritten and
\* its Box dropped: a use after free, whose outcome is undefined.
UseAfterFree(t, l) ==
    /\ pc[t] = "idle"
    /\ l \in handles[t]
    /\ loggers[l].dropped
    /\ pc' = [pc EXCEPT ![t] = "undefined"]
    /\ frame' = Forget(t)
    /\ UNCHANGED <<LOGGER, loggers, mutexes, out, owner, handles, guards,
                   ncalls, constructed, returned>>

\* The loggers work on messages already built; no call on values is part of
\* their steps.
values == <<invocation, result>>

\* One step of thread t of a program P.  P.types, P.levels, P.entries and
\* P.texts are the type pairs, levels, entry points and texts it uses;
\* P.serial: it keeps its global() calls from overlapping; P.setup: it
\* constructs and registers before it logs; P.owners: the threads that
\* construct loggers and writers; P.loggers, P.calls: how many loggers it
\* constructs and how many log calls it makes.
Room(P) == Len(loggers) + PendingInits < P.loggers

Setup(P) == P.setup => ncalls = 0

Owner(t, P) == t \in P.owners

Step(t, P) ==
    \/ /\ UNCHANGED values
       /\ Room(P)
       /\ Owner(t, P)
       /\ Setup(P)
       /\ \E ty \in P.types : NewLocal(t, ty)
    \/ /\ UNCHANGED values
       /\ LOGGER = 0 => Room(P)
       /\ Setup(P)
       /\ \E ty \in P.types : GlobalCheck(t, ty, P.serial)
    \/ /\ UNCHANGED values
       /\ GlobalInit(t)
    \/ /\ UNCHANGED values
       /\ GlobalDowncast(t)
    \/ /\ UNCHANGED values
       /\ Len(mutexes) < MaxWriters
       /\ Owner(t, P)
       /\ Setup(P)
       /\ \E l \in DOMAIN loggers : Len(loggers[l].writers) < MaxLen /\ add_writer(t, l)
    \/ /\ UNCHANGED values
       /\ Len(mutexes) < MaxWriters
       /\ Owner(t, P)
       /\ Setup(P)
       /\ NewSharedWriter(t)
    \/ /\ UNCHANGED values
       /\ Setup(P)
       /\ Owner(t, P)
       /\ \E l \in DOMAIN loggers, w \in DOMAIN mutexes :
             Len(loggers[l].writers) < MaxLen /\ add_writer_shared(t, l, w)
    \/ /\ UNCHANGED values
       /\ ncalls < P.calls
       /\ \E l \in DOMAIN loggers, entry \in P.entries, txt \in P.texts :
             \E sev \in (IF entry \in NamedCalls THEN {Trace} ELSE P.levels) :
                Call(t, l, entry, sev, txt)
    \/ /\ UNCHANGED values
       /\ log_named(t)
    \/ /\ UNCHANGED values
       /\ log_with_severity(t)
    \/ /\ UNCHANGED values
       /\ log_message(t)
    \/ /\ UNCHANGED values
       /\ Lock(t)
    \/ /\ UNCHANGED values
       /\ WriteBegin(t)
    \/ /\ UNCHANGED values
       /\ \E ok \in BOOLEAN : WriteEnd(t, ok)
    \/ /\ UNCHANGED values
       /\ \E w \in DOMAIN mutexes : DirectLock(t, w)
    \/ /\ UNCHANGED values
       /\ \E w \in DOMAIN mutexes : DirectUnlock(t, w)

\* A single-threaded program over every type pair, level and entry point.
SeqProgram ==
    [types |-> TypePairs, levels |-> Levels, entries |-> EntryPoints,
     texts |-> Texts, serial |-> TRUE, setup |-> FALSE, owners |-> {MainThread},
     loggers |-> SeqLoggers, calls |-> SeqCalls]

NextSeq == Step(MainThread, SeqProgram)

SpecSeq == Init /\ [][NextSeq]_vars

\* A single-threaded program that registers, then logs through every entry
\* point on loggers of the default type pair.
EntryProgram ==
    [types |-> {DefaultPair}, levels |-> Levels, entries |-> EntryPoints,
     texts |-> {"a"}, serial |-> TRUE, setup |-> TRUE, owners |-> {MainThread},
     loggers |-> SeqLoggers, calls |-> MaxCalls]

NextEntry == Step(MainThread, EntryProgram)

SpecEntry == Init /\ [][NextEntry]_vars

\* A multi-threaded program: the main thread constructs and registers, then
\* every thread logs.
ConcProgram ==
    [types |-> {DefaultPair}, levels |-> {Info}, entries |-> {"log_info"},
     texts |-> {"a"}, serial |-> TRUE, setup |-> TRUE, owners |-> {MainThread},
     loggers |-> MaxLoggers, calls |-> MaxCalls]

Next == \E t \in Threads : Step(t, ConcProgram)

Spec == Init /\ [][Next]_vars

\* A multi-threaded program whose threads call global() without any
\* synchronisation among them.
RaceProgram ==
    [types |-> {DefaultPair}, levels |-> {Info}, entries |-> {"log_info"},
     texts |-> {"a"}, serial |-> FALSE, setup |-> FALSE, owners |-> Threads,
     loggers |-> MaxLoggers, calls |-> SeqCalls]

NextRace ==
    \E t \in Threads :
        \/ Step(t, RaceProgram)
        \/ UNCHANGED values /\ \E l \in DOMAIN loggers : UseAfterFree(t, l)

SpecRace == Init /\ [][NextRace]_vars

\* A multi-threaded program whose writers never fail and whose callers lock
\* no writer themselves: the main thread constructs loggers and registers
\* writers on them, shared ones in any order, then every thread logs.
LiveProgram ==
    [types |-> {DefaultPair}, levels |-> {Info}, entries |-> {"log_info"},
     texts |-> {"a"}, serial |-> TRUE, setup |-> TRUE, owners |-> {MainThread},
     loggers |-> MaxLoggers, calls |-> MaxCalls]

\* The steps a thread takes by what its caller's code says next.
Arrange(t, P) ==
    \/ /\ UNCHANGED values
       /\ Room(P)
       /\ Owner(t, P)
       /\ Setup(P)
       /\ \E ty \in P.types : NewLocal(t, ty)
    \/ /\ UNCHANGED values
       /\ LOGGER = 0 => Room(P)
       /\ Setup(P)
       /\ \E ty \in P.types : GlobalCheck(t, ty, P.serial)
    \/ /\ UNCHANGED values
       /\ Len(mutexes) < MaxWriters
       /\ Owner(t, P)
       /\ Setup(P)
       /\ \E l \in DOMAIN loggers : Len(loggers[l].writers) < MaxLen /\ add_writer(t, l)
    \/ /\ UNCHANGED values
       /\ Len(mutexes) < MaxWriters
       /\ Owner(t, P)
       /\ Setup(P)
       /\ NewSharedWriter(t)
    \/ /\ UNCHANGED values
       /\ Setup(P)
       /\ Owner(t, P)
       /\ \E l \in DOMAIN loggers, w \in DOMAIN mutexes :
             Len(loggers[l].writers) < MaxLen /\ add_writer_shared(t, l, w)
    \/ /\ UNCHANGED values
       /\ ncalls < P.calls
       /\ \E l \in DOMAIN loggers, entry \in P.entries, txt \in P.texts :
             \E sev \in (IF entry \in NamedCalls THEN {Trace} ELSE P.levels) :
                Call(t, l, entry, sev, txt)

\* The steps of a thread inside global() or a log call, which it takes
\* whenever it is scheduled; every write returns Ok.
Progress(t) ==
    \/ UNCHANGED values /\ GlobalInit(t)
    \/ UNCHANGED values /\ GlobalDowncast(t)
    \/ UNCHANGED values /\ log_named(t)
    \/ UNCHANGED values /\ log_with_severity(t)
    \/ UNCHANGED values /\ log_message(t)
    \/ UNCHANGED values /\ Lock(t)
    \/ UNCHANGED values /\ WriteBegin(t)
    \/ UNCHANGED values /\ WriteEnd(t, TRUE)

NextLive == \E t \in Threads : Arrange(t, LiveProgram) \/ Progress(t)

\* Fair scheduling: a thread that can take a step of its call does so.
Fairness == \A t \in Threads : WF_vars(Progress(t))

SpecLive == Init /\ [][NextLive]_vars /\ Fairness

\* ------------------------------------------------------ calls on values
\* Text is a sequence of characters.
HelloWorld == <<"h", "e", "l", "l", "o", ",", " ", "w", "o", "r", "l", "d">>

ValueTexts == {HelloWorld, <<"a", "<", "b">>, <<>>}

\* str::to_owned, String::as_str: the characters, one by one.
to_owned(str) == [k \in 1..Len(str) |-> str[k]]

Panicked(why) ==
    [status |-> "panicked", message |-> NoMessage, ordering |-> <<>>,
     buffer |-> <<>>, error |-> why]

Returned(message, ordering, buffer) ==
    [status |-> "returned", message |-> message, ordering |-> ordering,
     buffer |-> buffer, error |-> ""]

Failed_with(error) ==
    [status |-> "error", message |-> NoMessage, ordering |-> <<>>,
     buffer |-> <<>>, error |-> error]

\* ------------------------------------------- private/message_builder.rs
\* Mutant: an unset field takes its Default instead of panicking.
MessageBuilder_build_Defaulting(builder) ==
    Returned([_severity |-> IF builder.severity.some THEN builder.severity.val ELSE Info,
              _text |-> IF builder.text.some THEN to_owned(builder.text.val) ELSE <<>>],
             <<>>, <<>>)

\* Mutant: the text is left at the default of the builder.
MessageBuilder_build_NoText(builder) ==
    IF ~builder.severity.some THEN Panicked("severity must be set")
    ELSE IF ~builder.text.some THEN Panicked("text must be set")
    ELSE Returned([_severity |-> builder.severity.val, _text |-> <<>>], <<>>, <<>>)

\* MessageBuilder::build: the fields are unwrapped in the order they are
\* written, `self.severity.expect(..)` then `self.text.expect(..).to_owned()`.
MessageBuilder_build(builder) ==
    IF ~builder.severity.some THEN Panicked("severity must be set")
    ELSE IF ~builder.text.some THEN Panicked("text must be set")
    ELSE Returned([_severity |-> builder.severity.val,
                   _text |-> to_owned(builder.text.val)], <<>>, <<>>)

\* ------------------------------------------------------------ severity.rs
\* #[derive(PartialOrd)] on a field-less enum: partial_cmp compares the
\* positions of the variants and is always Some.
partial_cmp(a, b) ==
    Some(IF a < b THEN "Less" ELSE IF a = b THEN "Equal" ELSE "Greater")

\* The operators PartialOrd and PartialEq give, from partial_cmp.
Comparison(a, b) ==
    [lt |-> partial_cmp(a, b) = Some("Less"),
     le |-> partial_cmp(a, b) \in {Some("Less"), Some("Equal")},
     gt |-> partial_cmp(a, b) = Some("Greater"),
     ge |-> partial_cmp(a, b) \in {Some("Greater"), Some("Equal")},
     eq |-> a = b,
     comparable |-> partial_cmp(a, b).some]

\* #[strum(serialize = "..")] with #[derive(Display)]: to_string().
Display(level) ==
    CASE level = Trace -> <<"t", "r", "a", "c", "e">>
      [] level = Debug -> <<"d", "e", "b", "u", "g">>
      [] level = DeveloperWarning -> <<"d", "e", "v", " ", "w", "a", "r", "n", "i", "n", "g">>
      [] level = Info -> <<"i", "n", "f", "o">>
      [] level = Warning -> <<"w", "a", "r", "n", "i", "n", "g">>
      [] level = Error -> <<"e", "r", "r", "o", "r">>
      [] level = Fatal -> <<"f", "a", "t", "a", "l">>

\* -------------------------------------------------- formatters/plaintext.rs
SeverityKey == <<"s", "e", "v", "e", "r", "i", "t", "y">>

TextKey == <<"t", "e", "x", "t">>

Open == <<"{", "{">>

Close == <<"}", "}">>

\* new_default: "[{{severity}}] {{text}}"
DefaultTemplate == <<"[">> \o Open \o SeverityKey \o Close \o <<"]", " ">> \o Open \o TextKey \o Close

\* The template of the documentation of new: "{{severity}}: {{text}}"
ColonTemplate == Open \o SeverityKey \o Close \o <<":", " ">> \o Open \o TextKey \o Close

\* A template whose expression is not closed: "{{text"
BrokenTemplate == Open \o TextKey

Templates == {ColonTemplate, BrokenTemplate, TextKey, DefaultTemplate}

At(chars, k, pair) == k + 1 <= Len(chars) /\ chars[k] = pair[1] /\ chars[k + 1] = pair[2]

\* The place of the first "}}" at or after k, 0 when there is none.
FirstClose(chars, k) ==
    IF \E j \in k..Len(chars) : At(chars, j, Close)
    THEN CHOOSE j \in k..Len(chars) :
            At(chars, j, Close) /\ \A i \in k..(j - 1) : ~At(chars, i, Close)
    ELSE 0

RECURSIVE Compile(_, _)
\* Handlebars::register_template_string, for templates made of raw text and
\* of expressions {{name}}: the elements of the template from place k on,
\* or a TemplateError for an expression that is not closed.
Compile(chars, k) ==
    IF k > Len(chars) THEN [ok |-> TRUE, elements |-> <<>>]
    ELSE IF At(chars, k, Open)
    THEN IF FirstClose(chars, k + 2) = 0
         THEN [ok |-> FALSE, elements |-> <<>>]
         ELSE LET rest == Compile(chars, FirstClose(chars, k + 2) + 2)
              IN [ok |-> rest.ok,
                  elements |-> <<[raw |-> FALSE,
                                  chars |-> SubSeq(chars, k + 2, FirstClose(chars, k + 2) - 1)]>>
                               \o rest.elements]
    ELSE LET rest == Compile(chars, k + 1)
         IN [ok |-> rest.ok,
             elements |-> <<[raw |-> TRUE, chars |-> <<chars[k]>>]>> \o rest.elements]

\* Plaintext::new
Plaintext_new(template_string) == Compile(template_string, 1)

\* The default escape function of handlebars, html_escape (the quote marks
\* other than the double quote are left out: no text here holds them).
html_escape_char(c) ==
    CASE c = "&" -> <<"&", "a", "m", "p", ";">>
      [] c = "<" -> <<"&", "l", "t", ";">>
      [] c = ">" -> <<"&", "g", "t", ";">>
      [] c = "\"" -> <<"&", "q", "u", "o", "t", ";">>
      [] c = "=" -> <<"&", "#", "x", "3", "D", ";">>
      [] OTHER -> <<c>>

RECURSIVE html_escape(_)
html_escape(str) ==
    IF str = <<>> THEN <<>> ELSE html_escape_char(Head(str)) \o html_escape(Tail(str))

\* format: the HashMap handed to the template.
Data(message, name) ==
    IF name = SeverityKey THEN Display(severity(message))
    ELSE IF name = TextKey THEN to_owned(text(message))
    ELSE <<>>

RECURSIVE Render(_, _)
\* Handlebars::render_to_write: raw text as it is, an expression as the
\* escaped value of its name in the data (nothing for a name not in it).
Render(elements, message) ==
    IF elements = <<>> THEN <<>>
    ELSE (IF Head(elements).raw THEN Head(elements).chars
          ELSE html_escape(Data(message, Head(elements).chars)))
         \o Render(Tail(elements), message)

\* Plaintext::format on a formatter with the compiled template; ok: the
\* io::Write it renders to takes the bytes.
Plaintext_format(plaintext, message, ok) ==
    IF ok THEN Returned(NoMessage, <<>>, Render(plaintext.elements, message))
    ELSE Failed_with("HandlebarsRenderError")

\* The calls made on values, with their arguments.
Options(S) == {None} \cup {Some(x) : x \in S}

ValueMessages == {from_core_fields(s, t) : s \in Levels, t \in ValueTexts}

Invocations ==
    {[NoInvocation EXCEPT !.fn = "build", !.severity = s, !.text = t] :
        s \in Options(Levels), t \in Options(ValueTexts)}
    \cup {[NoInvocation EXCEPT !.fn = "from_core_fields", !.severity = Some(s), !.text = Some(t)] :
        s \in Levels, t \in ValueTexts}
    \cup {[NoInvocation EXCEPT !.fn = "compare", !.operands = <<a, b, c>>] :
        a \in Levels, b \in Levels, c \in Levels}
    \cup {[NoInvocation EXCEPT !.fn = "new_default", !.message = m] : m \in ValueMessages}
    \cup {[NoInvocation EXCEPT !.fn = "new", !.template = tpl, !.message = m] :
        tpl \in Templates, m \in ValueMessages}

InitValues ==
    /\ InitLoggers
    /\ invocation \in Invocations
    /\ result = NoResult

loggerVars == <<LOGGER, loggers, mutexes, out, owner, pc, frame,
                handles, guards, ncalls, constructed, returned>>

Pending(fn) == invocation.fn = fn /\ result.status = "none"

\* MessageBuilder { severity, text }.build()
Build ==
    /\ Pending("build")
    /\ result' = MessageBuilder_build([severity |-> invocation.severity,
                                       text |-> invocation.text])
    /\ UNCHANGED <<loggerVars, invocation>>

\* Message::from_core_fields(severity, text)
FromCoreFields ==
    /\ Pending("from_core_fields")
    /\ result' = Returned(from_core_fields(invocation.severity.val, invocation.text.val),
                          <<>>, <<>>)
    /\ UNCHANGED <<loggerVars, invocation>>

\* The comparisons of three severities with one another, and min(), max().
Compare ==
    /\ Pending("compare")
    /\ result' = Returned(NoMessage,
                          [cmp |-> [i \in 1..3 |-> [j \in 1..3 |->
                                       Comparison(invocation.operands[i], invocation.operands[j])]],
                           min |-> IsSeverity_min(DefaultPair),
                           max |-> IsSeverity_max(DefaultPair)],
                          <<>>)
    /\ UNCHANGED <<loggerVars, invocation>>

\* Plaintext::new_default().format(&message, &mut buffer)
FormatDefault(ok) ==
    /\ Pending("new_default")
    /\ result' = IF Plaintext_new(DefaultTemplate).ok
                 THEN Plaintext_format(Plaintext_new(DefaultTemplate), invocation.message, ok)
                 ELSE Panicked("template error when creating default formatter")
    /\ UNCHANGED <<loggerVars, invocation>>

\* Plaintext::new(template)?.format(&message, &mut buffer)
FormatWith(ok) ==
    /\ Pending("new")
    /\ result' = IF Plaintext_new(invocation.template).ok
                 THEN Plaintext_format(Plaintext_new(invocation.template), invocation.message, ok)
                 ELSE Failed_with("HandlebarsTemplateError")
    /\ UNCHANGED <<loggerVars, invocation>>

NextValues ==
    \/ Build
    \/ FromCoreFields
    \/ Compare
    \/ \E ok \in BOOLEAN : FormatDefault(ok)
    \/ \E ok \in BOOLEAN : FormatWith(ok)

SpecValues == InitValues /\ [][NextValues]_vars

\* ------------------------------------------------------------------ claims
\* The thread's frame is a log call whose severity check has run.
Filtered(t) == frame[t].entry \in EntryPoints /\ pc[t] \notin EntryPoints

WriterList(t) == loggers[frame[t].logger].writers

Threshold(t) == loggers[frame[t].logger].min_severity

\* The write calls that call id began on writer w.
Heads(w, id) ==
    Cardinality({k \in DOMAIN out[w] : out[w][k].call = id /\ out[w][k].part = "head"})

Occurrences(list, w) == Cardinality({k \in DOMAIN list : list[k] = w})

C1_Inv ==
    \A t \in Threads : Filtered(t) =>
        /\ frame[t].msg._severity < Threshold(t) =>
              /\ pc[t] = "idle"
              /\ frame[t].outcome = "returned"
              /\ frame[t].did = <<>>
              /\ \A w \in DOMAIN out : Heads(w, frame[t].id) = 0
        /\ (frame[t].msg._severity >= Threshold(t) /\ frame[t].outcome = "returned") =>
              /\ frame[t].did = WriterList(t)
              /\ \A w \in DOMAIN out : Heads(w, frame[t].id) = Occurrences(WriterList(t), w)

C1_Act ==
    \A t \in Threads :
        (/\ pc[t] = "log_message"
         /\ frame[t].msg._severity < Threshold(t)
         /\ pc'[t] # pc[t])
        => UNCHANGED <<LOGGER, loggers, mutexes, out, owner, handles, guards,
                       ncalls, constructed, returned>>

\* C1: a message below the logger's threshold reaches no writer, changes
\* nothing and the call returns normally; a message at or above it has
\* reached every registered writer exactly once when the call returns.
C1_ThresholdFilter == []C1_Inv /\ [][C1_Act]_vars

\* A call that returned after dropping its message, on a logger with a writer.
C1_Witness ==
    \E t \in Threads :
        /\ Filtered(t)
        /\ frame[t].outcome = "returned"
        /\ frame[t].msg._severity < Threshold(t)
        /\ Len(WriterList(t)) >= 1

\* The write calls of call id on writer w that have ended.
Ended(w, id) ==
    Cardinality({k \in DOMAIN out[w] : out[w][k].call = id /\ out[w][k].part # "head"})

\* Call id had a write of writer w return an error.
Failed(w, id) == \E k \in DOMAIN out[w] : out[w][k].call = id /\ out[w][k].part = "failed"

InWrite(t, w) == pc[t] = "writing" /\ CurrentWriter(t) = w

\* C2: an accepted message goes to the writers in registration order: what
\* the call has written to is always a prefix of the writer list, one write
\* is in progress at most and every earlier one has ended, and when the call
\* returns every entry of the list has been written to exactly once.
C2_RegistrationOrder ==
    \A t \in Threads : (Filtered(t) /\ frame[t].msg._severity >= Threshold(t)) =>
        /\ Len(frame[t].did) <= Len(WriterList(t))
        /\ \A k \in DOMAIN frame[t].did : frame[t].did[k] = WriterList(t)[k]
        /\ pc[t] \in {"loop", "write"} => Len(frame[t].did) = frame[t].i - 1
        /\ pc[t] = "writing" => Len(frame[t].did) = frame[t].i
        /\ frame[t].outcome = "returned" => frame[t].did = WriterList(t)
        /\ \A w \in DOMAIN out :
              /\ Heads(w, frame[t].id) = Occurrences(frame[t].did, w)
              /\ Heads(w, frame[t].id) - Ended(w, frame[t].id)
                    = IF InWrite(t, w) THEN 1 ELSE 0

\* A call that returned after writing to two different writers.
C2_Witness ==
    \E t \in Threads :
        /\ Filtered(t)
        /\ frame[t].outcome = "returned"
        /\ Len(frame[t].did) = 2
        /\ frame[t].did[1] # frame[t].did[2]

\* C3 as claimed: when the write of one writer fails, the writers after it
\* in the list still get the message.
C3_FailureIsolated ==
    \A t \in Threads :
        (/\ Filtered(t)
         /\ frame[t].outcome = "panicked"
         /\ \E w \in DOMAIN out : Failed(w, frame[t].id))
        => Len(frame[t].did) = Len(WriterList(t))

\* The threads inside the critical section of writer w.
Holders(w) ==
    {t \in Threads : pc[t] \in {"write", "writing"} /\ CurrentWriter(t) = w}
    \cup {t \in Threads : w \in guards[t]}

\* C4: a writer is written to by one thread at a time, and what it emits is
\* whole messages: the head of a message is followed by the end of the same
\* write, or is the last thing emitted while its write is still running.
C4_WriterMutex ==
    \A w \in DOMAIN mutexes :
        /\ Cardinality(Holders(w)) <= 1
        /\ mutexes[w].holder # 0 => Holders(w) = {mutexes[w].holder}
        /\ \A k \in DOMAIN out[w] :
              IF out[w][k].part = "head"
              THEN IF k < Len(out[w])
                   THEN out[w][k + 1].call = out[w][k].call /\ out[w][k + 1].part # "head"
                   ELSE \E t \in Threads : InWrite(t, w) /\ frame[t].id = out[w][k].call
              ELSE k > 1 /\ out[w][k - 1].call = out[w][k].call /\ out[w][k - 1].part = "head"

\* One thread is inside write on a writer another thread's call waits for.
C4_Witness ==
    \E w \in DOMAIN mutexes, t, u \in Threads :
        /\ t # u
        /\ InWrite(t, w)
        /\ pc[u] = "loop"
        /\ CurrentWriter(u) = w
        /\ Len(out[w]) >= 3

\* C5 as claimed: whatever the interleaving of the first global() calls, one
\* Logger is constructed and no instance a caller received is replaced.
C5_InitializeOnce ==
    /\ constructed <= 1
    /\ \A l \in returned : l = LOGGER /\ ~loggers[l].dropped

\* C6: global() calls that follow one another return the one instance the
\* first of them constructed, so a log call through any handle writes to the
\* writers registered through any other.
C6_SameInstance ==
    /\ constructed <= 1
    /\ \A l \in returned : l = LOGGER /\ ~loggers[l].dropped
    /\ \A t \in Threads :
          /\ pc[t] = "global_init" => LOGGER = 0
          /\ (frame[t].entry = "global" /\ frame[t].outcome = "returned") =>
                frame[t].logger = LOGGER /\ LOGGER \in handles[t]
          /\ (/\ Filtered(t)
              /\ frame[t].logger \in returned
              /\ frame[t].outcome = "returned"
              /\ frame[t].msg._severity >= Threshold(t))
             => frame[t].did = loggers[LOGGER].writers

\* A global() call returned the instance that already has a writer, which
\* was registered through the handle of an earlier global() call.
C6_Witness ==
    \E t \in Threads :
        /\ frame[t].entry = "global"
        /\ frame[t].outcome = "returned"
        /\ frame[t].logger = LOGGER
        /\ loggers[LOGGER].writers # <<>>

C7_Inv ==
    /\ constructed <= 1
    /\ \A t \in Threads : frame[t].entry = "global" =>
          /\ pc[t] = "global_init" => LOGGER = 0
          /\ frame[t].outcome = "returned" => loggers[frame[t].logger].ty = frame[t].ty
          /\ frame[t].outcome = "panicked" =>
                LOGGER # 0 /\ loggers[LOGGER].ty # frame[t].ty

C7_Act ==
    \A t \in Threads :
        (/\ pc[t] = "global_downcast"
         /\ loggers[LOGGER].ty # frame[t].ty
         /\ pc'[t] # pc[t])
        => /\ pc'[t] = "panicked"
           /\ UNCHANGED <<LOGGER, loggers, handles, constructed, returned>>

\* C7: once the slot holds a Logger of one type pair, a global() call for
\* another type pair panics; it constructs nothing and leaves the slot and
\* the instance in it as they were.
C7_TypeMismatchPanics == []C7_Inv /\ [][C7_Act]_vars

\* A global() call panicked on an instance that has a writer registered.
C7_Witness ==
    \E t \in Threads :
        /\ frame[t].entry = "global"
        /\ pc[t] = "panicked"
        /\ LOGGER # 0
        /\ loggers[LOGGER].writers # <<>>

C9_Inv ==
    \A t \in Threads : (Filtered(t) /\ WriterList(t) = <<>>) =>
        /\ pc[t] = "idle"
        /\ frame[t].outcome = "returned"
        /\ frame[t].did = <<>>
        /\ \A w \in DOMAIN out : Heads(w, frame[t].id) = 0

C9_Act ==
    \A l \in DOMAIN loggers' : l \notin DOMAIN loggers =>
        /\ loggers'[l].writers = <<>>
        /\ loggers'[l].min_severity =
              IF loggers'[l].ty.custom THEN loggers'[l].ty.min ELSE Trace

\* C9: a Logger, made by Logger::default() or by the first global(), starts
\* with no writer and with the threshold min() of its severity type (Trace
\* for Severity); a log call on a logger without writers writes nothing and
\* returns.
C9_DefaultLogger == []C9_Inv /\ [][C9_Act]_vars

\* A log call returned on the global logger of the default type pair, fresh
\* from its first access.
C9_Witness ==
    \E t \in Threads :
        /\ Filtered(t)
        /\ frame[t].outcome = "returned"
        /\ frame[t].logger = LOGGER
        /\ loggers[LOGGER] =
              [ty |-> DefaultPair, min_severity |-> Trace, writers |-> <<>>,
               dropped |-> FALSE]

\* The level the documentation of each named call gives.
NamedLevel(entry) ==
    CASE entry = "log_trace" -> 0
      [] entry = "log_debug" -> 1
      [] entry = "log_developer_warning" -> 2
      [] entry = "log_info" -> 3
      [] entry = "log_warning" -> 4
      [] entry = "log_error" -> 5
      [] entry = "log_fatal" -> 6

\* C10: a named call reaches log_with_severity with its level and its text,
\* log_with_severity reaches log_message with the message made of its
\* severity and text, so each entry point dispatches like log_message on
\* that message; on a logger with the default threshold and one writer a
\* call that returns has written once, and k calls have written k times.
C10_EntryPoints ==
    /\ \A t \in Threads : frame[t].entry \in EntryPoints =>
          /\ (frame[t].entry \in NamedCalls /\ pc[t] \notin NamedCalls) =>
                /\ frame[t].severity = NamedLevel(frame[t].entry)
                /\ frame[t].text \in Texts
          /\ (frame[t].entry # "log_message" /\ pc[t] \notin NamedCalls \cup {"log_with_severity"}) =>
                frame[t].msg = [_severity |-> frame[t].severity, _text |-> frame[t].text]
          /\ (/\ Filtered(t)
              /\ frame[t].outcome = "returned"
              /\ Len(WriterList(t)) = 1
              /\ Threshold(t) = Trace)
             => /\ Len(frame[t].did) = 1
                /\ Heads(WriterList(t)[1], frame[t].id) = 1
    /\ \A l \in DOMAIN loggers :
          (/\ \A t \in Threads : pc[t] \in {"idle", "panicked"}
           /\ Len(loggers) = 1
           /\ Len(loggers[l].writers) = 1
           /\ loggers[l].min_severity = Trace)
          => Cardinality({k \in DOMAIN out[loggers[l].writers[1]] :
                             out[loggers[l].writers[1]][k].part = "head"}) = ncalls

\* Two calls returned, the second a named call, and the one writer was
\* written to twice.
C10_Witness ==
    \E t \in Threads :
        /\ frame[t].entry \in NamedCalls
        /\ frame[t].outcome = "returned"
        /\ Len(WriterList(t)) = 1
        /\ ncalls >= 2
        /\ Len(out[WriterList(t)[1]]) = 2 * ncalls

\* C11: a Message made by from_core_fields(s, t), or by build() on a builder
\* with severity Some(s) and text Some(t), has severity() = s and text() = t.
C11_RoundTrip ==
    (/\ invocation.fn \in {"from_core_fields", "build"}
     /\ invocation.severity.some
     /\ invocation.text.some
     /\ result.status # "none")
    => /\ result.status = "returned"
       /\ severity(result.message) = invocation.severity.val
       /\ text(result.message) = invocation.text.val

\* build() returned a message with a text that is not empty.
C11_Witness ==
    /\ invocation.fn = "build"
    /\ result.status = "returned"
    /\ result.message = [_severity |-> Warning, _text |-> HelloWorld]

\* C12: build() panics and makes no Message when severity is unset, and when
\* text is unset, whatever the other field holds; it returns a Message
\* exactly when both are set.
C12_BuildRequiresFields ==
    (invocation.fn = "build" /\ result.status # "none") =>
        /\ result.status \in {"returned", "panicked"}
        /\ result.status = "returned" <=> (invocation.severity.some /\ invocation.text.some)
        /\ result.status = "panicked" =>
              /\ result.message = NoMessage
              /\ result.error \in {"severity must be set", "text must be set"}

\* build() panicked on a builder whose severity is set and whose text is not.
C12_Witness ==
    /\ invocation.fn = "build"
    /\ invocation.severity.some
    /\ ~invocation.text.some
    /\ result.status = "panicked"

\* The order the documentation gives, least severe first.
Chain == <<Trace, Debug, DeveloperWarning, Info, Warning, Error, Fatal>>

Position(level) == CHOOSE k \in DOMAIN Chain : Chain[k] = level

\* C13: the comparisons of Severity are a total order along Trace < Debug <
\* DeveloperWarning < Info < Warning < Error < Fatal: two values are always
\* comparable, exactly one of <, ==, > holds, <= and >= are their unions,
\* the order is antisymmetric and transitive; min() is Trace and below every
\* value, max() is Fatal and above every value.
C13_TotalOrder ==
    (invocation.fn = "compare" /\ result.status # "none") =>
        /\ result.status = "returned"
        /\ result.ordering.min = Chain[1]
        /\ result.ordering.max = Chain[Len(Chain)]
        /\ \A i, j \in 1..3 :
              LET c == result.ordering.cmp[i][j]
                  a == invocation.operands[i]
                  b == invocation.operands[j]
              IN /\ c.comparable
                 /\ c.lt <=> Position(a) < Position(b)
                 /\ c.eq <=> Position(a) = Position(b)
                 /\ c.gt <=> Position(a) > Position(b)
                 /\ c.le <=> (c.lt \/ c.eq)
                 /\ c.ge <=> (c.gt \/ c.eq)
                 /\ (c.le /\ result.ordering.cmp[j][i].le) => c.eq
                 /\ Comparison(result.ordering.min, a).le
                 /\ Comparison(result.ordering.max, a).ge
                 /\ \A k \in 1..3 :
                       (c.lt /\ result.ordering.cmp[j][k].lt) => result.ordering.cmp[i][k].lt

\* Three different severities were compared, the last of them Fatal.
C13_Witness ==
    /\ invocation.fn = "compare"
    /\ invocation.operands = <<Debug, DeveloperWarning, Fatal>>
    /\ result.status = "returned"

\* C14 as claimed: the default formatter renders (Info, "hello, world") as
\* "[INFO] hello, world", and the template "{{severity}}: {{text}}" renders
\* it as "info: hello, world".
C14_DefaultUpperCase ==
    (/\ result.status = "returned"
     /\ invocation.message = from_core_fields(Info, HelloWorld))
    => /\ invocation.fn = "new_default" =>
             result.buffer = <<"[", "I", "N", "F", "O", "]", " ">> \o HelloWorld
       /\ (invocation.fn = "new" /\ invocation.template = ColonTemplate) =>
             result.buffer = <<"i", "n", "f", "o", ":", " ">> \o HelloWorld

\* C15: a log call one of whose writes returned an error has panicked: it
\* has not returned and never does, whichever entry point it came in by.
C15_WriteFailurePanics ==
    \A t \in Threads :
        (/\ frame[t].entry \in EntryPoints
         /\ \E w \in DOMAIN out : Failed(w, frame[t].id))
        => /\ pc[t] = "panicked"
           /\ frame[t].outcome = "panicked"
           /\ out[frame[t].did[Len(frame[t].did)]][Len(out[frame[t].did[Len(frame[t].did)]])]
                 = [msg |-> frame[t].msg, part |-> "failed", call |-> frame[t].id]

\* A named call panicked on the failing write of the second writer.
C15_Witness ==
    \E t \in Threads :
        /\ frame[t].entry \in NamedCalls
        /\ pc[t] = "panicked"
        /\ Len(frame[t].did) = 2
        /\ Failed(frame[t].did[2], frame[t].id)

C16_Inv ==
    /\ \A t \in Threads, l \in DOMAIN loggers :
          (pc[t] = "idle" /\ Usable(t, l) /\ Quiescent(l)) =>
              /\ ENABLED (/\ add_writer(t, l)
                          /\ loggers'[l].writers = Append(loggers[l].writers, Len(mutexes) + 1)
                          /\ pc' = pc)
              /\ \A w \in DOMAIN mutexes : owner[w] = t =>
                    ENABLED (/\ add_writer_shared(t, l, w)
                             /\ loggers'[l].writers = Append(loggers[l].writers, w)
                             /\ pc' = pc)
    /\ \A t \in Threads :
          (/\ Filtered(t)
           /\ frame[t].outcome = "returned"
           /\ frame[t].msg._severity >= Threshold(t))
          => \A w \in DOMAIN mutexes :
                Occurrences(frame[t].did, w) = Occurrences(WriterList(t), w)

C16_Act ==
    \A l \in DOMAIN loggers :
        \/ loggers'[l].writers = loggers[l].writers
        \/ /\ \E w \in DOMAIN mutexes' : loggers'[l].writers = Append(loggers[l].writers, w)
           /\ pc' = pc
           /\ \A k \in DOMAIN loggers : k # l => loggers'[k] = loggers[k]

\* C16: a registration, owned or shared, is always possible, appends one
\* entry at the end of the list and fails in no case, also for a writer that
\* is in the list already; no step removes or reorders entries; a call that
\* returns has written to a writer as many times as the list holds it.
C16_AppendOnly == []C16_Inv /\ [][C16_Act]_vars

\* A call returned after two writes to the one shared writer its logger
\* holds twice.
C16_Witness ==
    \E t \in Threads :
        /\ Filtered(t)
        /\ frame[t].outcome = "returned"
        /\ Len(WriterList(t)) = 2
        /\ WriterList(t)[1] = WriterList(t)[2]
        /\ Heads(WriterList(t)[1], frame[t].id) = 2

C17_Inv ==
    /\ \A w \in DOMAIN out, v \in DOMAIN out :
          \A k \in DOMAIN out[w], j \in DOMAIN out[v] :
              out[w][k].call = out[v][j].call => out[w][k].msg = out[v][j].msg
    /\ \A t \in Threads : Filtered(t) =>
          \A w \in DOMAIN out : \A k \in DOMAIN out[w] :
              out[w][k].call = frame[t].id => out[w][k].msg = frame[t].msg
    /\ \A l \in DOMAIN loggers :
          DOMAIN loggers[l] = {"ty", "min_severity", "writers", "dropped"}

C17_Act ==
    \A t \in Threads :
        (Dispatching(t) /\ pc'[t] # pc[t]) =>
            /\ loggers' = loggers
            /\ frame'[t].msg = frame[t].msg \/ pc[t] = "log_with_severity"

\* C17: every writer a log_message call writes to gets the message the call
\* was given, with its severity and its text, whatever the writers before it
\* did; the dispatch changes no Logger, which has no field to keep a message.
C17_ForwardedUnmodified == []C17_Inv /\ [][C17_Act]_vars

\* A call with a text and a level of its own has written to two writers.
C17_Witness ==
    \E t \in Threads :
        /\ Filtered(t)
        /\ frame[t].msg = [_severity |-> Error, _text |-> "b"]
        /\ Len(frame[t].did) = 2
        /\ frame[t].did[1] # frame[t].did[2]
        /\ Len(out[frame[t].did[2]]) >= 1

\* The writer locks a thread holds through its log call (not the guards its
\* caller took directly).
LocksOf(t) == {w \in DOMAIN mutexes : mutexes[w].holder = t} \ guards[t]

\* C18: a log call holds the lock of a writer exactly from lock() to the end
\* of that writer's write: one lock at most at any time, the one of the
\* current writer, and none between two writers, after the call returned or
\* after it panicked.
C18_OneLockAtATime ==
    \A t \in Threads :
        /\ Cardinality(LocksOf(t)) <= 1
        /\ pc[t] \in {"write", "writing"} => LocksOf(t) = {CurrentWriter(t)}
        /\ pc[t] \notin {"write", "writing"} => LocksOf(t) = {}

\* A call is between its first and its second writer while another thread
\* writes to the first.
C18_Witness ==
    \E t, u \in Threads :
        /\ t # u
        /\ pc[t] = "loop"
        /\ frame[t].i = 2
        /\ InWrite(u, frame[t].did[1])

\* The calls in the order their writes began on writer w.
HeadOrder(w) ==
    LET heads == {k \in DOMAIN out[w] : out[w][k].part = "head"}
    IN [n \in 1..Cardinality(heads) |->
           out[w][CHOOSE k \in heads : Cardinality({j \in heads : j <= k}) = n].call]

\* C19: nothing orders two calls that want the same writer: whenever two
\* calls wait for one free writer, each of them can be the next to lock it,
\* whichever was submitted first; each call still goes through its writers
\* in registration order.
C19_FirstToLockWins ==
    \A t, u \in Threads :
        (/\ t # u
         /\ pc[t] = "loop"
         /\ pc[u] = "loop"
         /\ CurrentWriter(t) = CurrentWriter(u)
         /\ mutexes[CurrentWriter(t)].holder = 0)
        => /\ ENABLED Lock(t)
           /\ ENABLED Lock(u)
           /\ \A k \in DOMAIN frame[t].did : frame[t].did[k] = WriterList(t)[k]
           /\ \A k \in DOMAIN frame[u].did : frame[u].did[k] = WriterList(u)[k]

\* One writer got the first call before the second, another writer of the
\* same logger got the second before the first.
C19_Witness ==
    \E l \in DOMAIN loggers :
        /\ Len(loggers[l].writers) = 2
        /\ HeadOrder(loggers[l].writers[1]) = <<1, 2>>
        /\ HeadOrder(loggers[l].writers[2]) = <<2, 1>>

C20_Inv ==
    /\ \A l \in DOMAIN loggers :
          loggers[l].min_severity = IF loggers[l].ty.custom THEN loggers[l].ty.min ELSE Trace
    /\ \A t \in Threads : (Filtered(t) /\ frame[t].ty = DefaultPair) =>
          /\ frame[t].msg._severity >= Threshold(t)
          /\ (WriterList(t) # <<>> /\ frame[t].outcome = "returned") => frame[t].did # <<>>

C20_Act ==
    \A l \in DOMAIN loggers : loggers'[l].min_severity = loggers[l].min_severity

\* C20: no step changes the threshold of a Logger; it is min() of the
\* severity type in every state, so on a Logger of the default type every
\* message is accepted and none is dropped.
C20_ThresholdConstant == []C20_Inv /\ [][C20_Act]_vars

\* A Trace message was written by a logger of the default type after a
\* registration on it.
C20_Witness ==
    \E t \in Threads :
        /\ Filtered(t)
        /\ frame[t].ty = DefaultPair
        /\ frame[t].msg._severity = Trace
        /\ frame[t].outcome = "returned"
        /\ Len(frame[t].did) >= 1

\* Writer w had a write return an error.
Broken(w) == \E k \in DOMAIN out[w] : out[w][k].part = "failed"

C22_Inv ==
    /\ \A w \in DOMAIN mutexes : Broken(w) =>
          /\ mutexes[w].poisoned
          /\ out[w][Len(out[w])].part = "failed"
          /\ \A k \in DOMAIN out[w] : out[w][k].part = "failed" => k = Len(out[w])
    /\ \A t \in Threads :
          (/\ Filtered(t)
           /\ frame[t].i \in DOMAIN WriterList(t)
           /\ Broken(CurrentWriter(t))
           /\ ~Failed(CurrentWriter(t), frame[t].id))
          => /\ pc[t] \in {"loop", "panicked"}
             /\ Len(frame[t].did) = frame[t].i - 1
             /\ \A k \in frame[t].i..Len(WriterList(t)) :
                   Occurrences(frame[t].did, WriterList(t)[k]) = Heads(WriterList(t)[k], frame[t].id)

C22_Act ==
    /\ \A w \in DOMAIN mutexes :
          /\ mutexes[w].poisoned => mutexes'[w].poisoned
          /\ Broken(w) => out'[w] = out[w]
          /\ (~Broken(w) /\ out'[w] # out[w] /\ out'[w][Len(out'[w])].part = "failed") =>
                mutexes[w].holder \in Threads /\ InWrite(mutexes[w].holder, w)
    /\ \A t \in Threads :
          (pc[t] = "loop" /\ Broken(CurrentWriter(t)) /\ pc'[t] # pc[t]) =>
              /\ pc'[t] = "panicked"
              /\ out' = out
              /\ frame'[t].did = frame[t].did

\* C22: a write that fails panics with the writer's lock held and poisons
\* it for good; the writer emits nothing after the failure, and every later
\* call of any thread that reaches it, through any logger, panics at lock()
\* in a step that writes nothing, so the writers after it in that call's
\* list get nothing from the call either.
C22_PoisonedWriterDisabled == []C22_Inv /\ [][C22_Act]_vars

\* A call of another thread panicked at the first writer of its list, which
\* an earlier call had broken, and never reached the second.
C22_Witness ==
    \E t \in Threads :
        /\ Filtered(t)
        /\ pc[t] = "panicked"
        /\ frame[t].i = 1
        /\ Len(WriterList(t)) = 2
        /\ WriterList(t)[1] # WriterList(t)[2]
        /\ Broken(WriterList(t)[1])
        /\ ~Failed(WriterList(t)[1], frame[t].id)
        /\ Heads(WriterList(t)[2], frame[t].id) = 0

\* C21: when no write fails, every log call in progress returns, with none
\* of its locks left, also when two loggers hold the same writers in
\* opposite orders; and when no call is in progress every writer is unlocked.
C21_NoDeadlock ==
    /\ \A t \in Threads :
          Dispatching(t) ~> (/\ pc[t] = "idle"
                             /\ frame[t].outcome = "returned"
                             /\ LocksOf(t) = {})
    /\ []((\A t \in Threads : ~Dispatching(t)) =>
             \A w \in DOMAIN mutexes : mutexes[w].holder = 0)

\* Two calls on two loggers that hold the same two writers in opposite
\* orders are each inside the write of their first writer.
C21_Witness ==
    \E t, u \in Threads :
        /\ t # u
        /\ pc[t] = "writing"
        /\ pc[u] = "writing"
        /\ frame[t].i = 1
        /\ frame[u].i = 1
        /\ Len(WriterList(t)) = 2
        /\ WriterList(u) = <<WriterList(t)[2], WriterList(t)[1]>>
        /\ WriterList(t)[1] # WriterList(t)[2]

====
